---------------------------- MODULE Spec2Model ----------------------------
(***************************************************************************)
(* Model of app.py (Streamlit "Cadastro de Eventos e Feiras").              *)
(*                                                                         *)
(* The script main() is re-executed from top to bottom on every            *)
(* interaction.  One action of the model is one such execution, triggered  *)
(* by one widget of the page that the previous execution rendered.         *)
(*                                                                         *)
(* Text values (st.text_input, selectbox display strings of cities) are     *)
(* sequences of one-character strings so that strip, rsplit and replace    *)
(* are computed as Python computes them.  An Optional value is None (the   *)
(* empty tuple) or Some(v) (the one-element tuple).                        *)
(***************************************************************************)
EXTENDS Integers, Sequences, FiniteSets, TLC

VARIABLES
    users,            \* table users: sequence of rows, in rowid order
    events,           \* table events: sequence of rows, in rowid order
    sqlite_sequence,  \* AUTOINCREMENT counters of the two tables
    cidades_json,     \* content of the file cidades.json (None: file absent)
    session_state,    \* st.session_state of the browser session
    page,             \* widgets rendered by the last execution of main()
    out               \* what the last execution was given and what it reported

vars == <<users, events, sqlite_sequence, cidades_json, session_state, page, out>>

-----------------------------------------------------------------------------
(* Bounds of the model *)

\* the create form is not offered to the model once the table holds MaxEvents rows
MaxEvents == 2
\* longest city name of a generated reference dataset (specification SpecCity)
MaxNome == 3

-----------------------------------------------------------------------------
(* Optional values and small helpers *)

None == <<>>
Some(v) == <<v>>
Get(o) == o[1]

Max(S) == CHOOSE x \in S : \A y \in S : y <= x
Min(S) == CHOOSE x \in S : \A y \in S : x <= y
Range(s) == {s[i] : i \in 1..Len(s)}

-----------------------------------------------------------------------------
(* Python str methods, on sequences of characters *)

\* s.strip(): leading and trailing whitespace removed
Strip(s) ==
    LET keep == {i \in 1..Len(s) : s[i] # " "}
    IN  IF keep = {} THEN <<>> ELSE SubSeq(s, Min(keep), Max(keep))

\* c in s, for a single character c
HasChar(s, c) == \E i \in 1..Len(s) : s[i] = c

\* the positions at which sub occurs in s
Occurrences(s, sub) ==
    {i \in 1..(Len(s) - Len(sub) + 1) : SubSeq(s, i, i + Len(sub) - 1) = sub}

\* s.rsplit(sep, 1): a list of one part (sep absent) or two (split at the last sep)
RSplit1(s, sep) ==
    LET pos == Occurrences(s, sep)
    IN  IF pos = {} THEN <<s>>
        ELSE LET k == Max(pos)
             IN  <<SubSeq(s, 1, k - 1), SubSeq(s, k + Len(sep), Len(s))>>

\* s.replace(c, ""): every occurrence of the character c removed
RemoveChar(s, c) == SelectSeq(s, LAMBDA x : x # c)

-----------------------------------------------------------------------------
(* Database functions *)

\* adaptation of a datetime.date bound to a DATE column: its ISO text
adapt_date(d) == [iso |-> d]

\* register_user with the UNIQUE constraint ignored (mutant)
register_user_no_unique(us, seq, username, password) ==
    [ok |-> TRUE, msg |-> "Usuario registrado com sucesso.",
     users |-> Append(us, [id |-> seq + 1, username |-> username, password |-> password]),
     seq |-> seq + 1]

\* register_user(username, password) on table us with AUTOINCREMENT counter seq
register_user(us, seq, username, password) ==
    IF \E i \in 1..Len(us) : us[i].username = username
    THEN [ok |-> FALSE, msg |-> "UNIQUE constraint failed: users.username",
          users |-> us, seq |-> seq]
    ELSE [ok |-> TRUE, msg |-> "Usuario registrado com sucesso.",
          users |-> Append(us, [id |-> seq + 1, username |-> username,
                                password |-> password]),
          seq |-> seq + 1]

\* login_user comparing the username only (mutant)
login_user_any_password(us, username, password) ==
    LET rows == SelectSeq(us, LAMBDA r : r.username = username)
    IN  IF rows # <<>> THEN [ok |-> TRUE, user_id |-> Some(rows[1].id)]
        ELSE [ok |-> FALSE, user_id |-> None]

\* login_user(username, password): (True, id) of the first matching row, or (False, None)
login_user(us, username, password) ==
    LET rows == SelectSeq(us, LAMBDA r : r.username = username /\ r.password = password)
    IN  IF rows # <<>> THEN [ok |-> TRUE, user_id |-> Some(rows[1].id)]
        ELSE [ok |-> FALSE, user_id |-> None]

\* the row that INSERT INTO events stores for the arguments a, under identifier id
EventRow(id, a) ==
    [id |-> id, user_id |-> a.user_id, nome_evento |-> a.nome_evento,
     local |-> a.local, cidade |-> a.cidade, estado |-> a.estado,
     data_inicio |-> adapt_date(a.data_inicio), data_fim |-> adapt_date(a.data_fim),
     qtd_pessoas |-> a.qtd_pessoas, descricao |-> a.descricao,
     categoria |-> a.categoria, segmento |-> a.segmento]

\* insert_event binding cidade and estado in the wrong order (mutant)
insert_event_swapped(evs, seq, a) ==
    [events |-> Append(evs, EventRow(seq + 1,
                    [a EXCEPT !.cidade = a.estado, !.estado = a.cidade])),
     seq |-> seq + 1]

\* insert_event(user_id, ...): one new row under the next AUTOINCREMENT identifier
insert_event(evs, seq, a) ==
    [events |-> Append(evs, EventRow(seq + 1, a)), seq |-> seq + 1]

\* fetch_events without its WHERE clause: the events of every account (mutant)
fetch_events_all(evs, user_id) == evs

\* fetch_events(user_id): SELECT * FROM events WHERE user_id = ?
fetch_events(evs, user_id) == SelectSeq(evs, LAMBDA r : r.user_id = user_id)

\* the row r with the ten columns of the UPDATE statement set from a
UpdatedRow(r, a) ==
    [r EXCEPT !.nome_evento = a.nome_evento, !.local = a.local,
              !.cidade = a.cidade, !.estado = a.estado,
              !.data_inicio = adapt_date(a.data_inicio),
              !.data_fim = adapt_date(a.data_fim),
              !.qtd_pessoas = a.qtd_pessoas, !.descricao = a.descricao,
              !.categoria = a.categoria, !.segmento = a.segmento]

\* update_event without its WHERE clause (mutant)
update_event_no_where(evs, event_id, a) ==
    [i \in 1..Len(evs) |-> UpdatedRow(evs[i], a)]

\* update_event that rewrites the row as a new row of the caller (mutant)
update_event_reinsert(evs, event_id, a) ==
    [i \in 1..Len(evs) |->
        IF evs[i].id = event_id
        THEN [UpdatedRow(evs[i], a) EXCEPT !.id = Len(evs) + 1]
        ELSE evs[i]]

\* update_event(event_id, ...): UPDATE events SET <ten columns> WHERE id = ?
update_event(evs, event_id, a) ==
    [i \in 1..Len(evs) |->
        IF evs[i].id = event_id THEN UpdatedRow(evs[i], a) ELSE evs[i]]

\* the display string f"{Nome} ({Uf})" of one entry of the dataset
DisplayString(nome, uf) == nome \o <<" ", "(">> \o uf \o <<")">>

\* carregar_cidades(): the display strings of the dataset, [] when the file is absent.
\* The list is sorted in the code; the model keeps the set of its elements, since the
\* order only decides the position of an option in the selectbox.
carregar_cidades(file) ==
    IF file = None THEN {}
    ELSE {DisplayString(item.Nome, item.Uf) : item \in Range(Get(file))}


-----------------------------------------------------------------------------
(* Widgets of the two forms *)

\* the placeholder option "Selecione..." of the city selectbox
SELECIONE == <<"S", "e", "l", "e", "c", "i", "o", "n", "e", ".", ".", ".">>

\* the options of the selectbox "Categoria" after its placeholder; none of them
\* has surrounding whitespace, so categoria.strip() returns the option itself
CATEGORIAS == {"Show", "Congresso", "Feira", "Workshop", "Outro"}

\* min_value of st.number_input("Quantidade Esperada de Pessoas"): the widget
\* returns no smaller number
MIN_QTD == 1

\* "Extrair cidade e uf" of the create form, and new_cidade/new_uf of the edit form:
\* raised stands for the IndexError of partes[1] when " (" does not occur
extrair_cidade_uf(sel) ==
    IF HasChar(sel, "(") /\ HasChar(sel, ")")
    THEN LET partes == RSplit1(sel, <<" ", "(">>)
         IN  IF Len(partes) < 2
             THEN [raised |-> TRUE, cidade |-> Strip(partes[1]), uf |-> <<>>]
             ELSE [raised |-> FALSE, cidade |-> Strip(partes[1]),
                   uf |-> Strip(RemoveChar(partes[2], ")"))]
    ELSE [raised |-> FALSE, cidade |-> Strip(sel), uf |-> <<>>]

\* validation of form_evento without the test of segmento (mutant)
erro_cadastro_sem_segmento(f) ==
    IF Strip(f.nome_evento) = <<>> THEN "Preencha o Nome do Evento."
    ELSE IF Strip(f.local) = <<>> THEN "Preencha o Local."
    ELSE IF f.cidade = SELECIONE THEN "Selecione a Cidade."
    ELSE IF f.data_inicio = None THEN "Selecione a Data de Inicio."
    ELSE IF f.data_fim = None THEN "Selecione a Data de Fim."
    ELSE IF f.categoria = "Selecione..." THEN "Selecione uma Categoria."
    ELSE IF Strip(f.descricao) = <<>> THEN "Preencha a Descricao do Evento."
    ELSE ""

\* "Validacao simples" of form_evento: the st.error text, "" when every test passes
erro_cadastro(f) ==
    IF Strip(f.nome_evento) = <<>> THEN "Preencha o Nome do Evento."
    ELSE IF Strip(f.local) = <<>> THEN "Preencha o Local."
    ELSE IF f.cidade = SELECIONE THEN "Selecione a Cidade."
    ELSE IF f.data_inicio = None THEN "Selecione a Data de Inicio."
    ELSE IF f.data_fim = None THEN "Selecione a Data de Fim."
    ELSE IF f.categoria = "Selecione..." THEN "Selecione uma Categoria."
    ELSE IF Strip(f.segmento) = <<>> THEN "Preencha o Segmento."
    ELSE IF Strip(f.descricao) = <<>> THEN "Preencha a Descricao do Evento."
    ELSE ""

\* "Valida" of form_edicao_evento
erro_edicao(f) ==
    IF \/ Strip(f.nome_evento) = <<>>
       \/ Strip(f.local) = <<>>
       \/ f.cidade = SELECIONE
       \/ f.categoria = "Selecione..."
       \/ Strip(f.segmento) = <<>>
       \/ Strip(f.descricao) = <<>>
    THEN "Preencha todos os campos obrigatorios."
    ELSE ""

\* the keyword arguments both forms pass to the store, for the decomposed city x
FormArgs(f, x) ==
    [nome_evento |-> Strip(f.nome_evento), local |-> Strip(f.local),
     cidade |-> x.cidade, estado |-> x.uf,
     data_inicio |-> Get(f.data_inicio), data_fim |-> Get(f.data_fim),
     qtd_pessoas |-> f.qtd_pessoas, descricao |-> Strip(f.descricao),
     categoria |-> f.categoria, segmento |-> Strip(f.segmento)]

\* cidades_opcoes of the edit form, without its placeholder: the dataset's display
\* strings and the row's own city, recombined as "cidade (estado)"
cidades_opcoes(row, lista_cidades) ==
    LET combo_cidade_uf ==
            IF row.cidade # <<>> /\ row.estado # <<>>
            THEN DisplayString(row.cidade, row.estado)
            ELSE row.cidade
    IN  (lista_cidades \cup (IF combo_cidade_uf # <<>> THEN {combo_cidade_uf} ELSE {}))
            \ {SELECIONE}

-----------------------------------------------------------------------------
(* The script main(): one execution, for the widget w that triggered it and   *)
(* the value inp the browser sent with it.  S is the state the execution      *)
(* starts in; the result holds the state it leaves, the messages it shows     *)
(* (msgs), the store functions it called (calls), the widgets it rendered     *)
(* (page) and whether it ended in an uncaught exception (raised).             *)

PageOf(widgets, rows, opcoes) == [widgets |-> widgets, rows |-> rows, opcoes |-> opcoes]

\* the page of an anonymous session: both tabs
LoginPage == PageOf({"Entrar", "Registrar"}, {}, {})

\* the page down to the create form
FormPage == PageOf({"Sair", "form_evento"}, {}, {})

\* an execution that has changed nothing and reported nothing yet
Quiet(S, pg) ==
    [users |-> S.users, events |-> S.events, seq |-> S.seq, ss |-> S.ss,
     msgs |-> <<>>, calls |-> <<>>, page |-> pg, raised |-> FALSE]

\* the session variables as main() creates them
SessionInit ==
    [logged_in |-> FALSE, user_id |-> None, username |-> None, edit_event_id |-> None]

\* the "Sair" handler leaving edit_event_id as it is (mutant)
sair_keeps_edit(ss) ==
    [ss EXCEPT !.logged_in = FALSE, !.user_id = None, !.username = None]

\* the assignments of the "Sair" handler
sair(ss) ==
    [ss EXCEPT !.logged_in = FALSE, !.user_id = None, !.username = None,
               !.edit_event_id = None]

\* the "Registrar" tab logging the new user in (mutant)
registrar_auto_login(S, inp) ==
    LET r == register_user(S.users, S.seq.users, inp.username, inp.password)
    IN  [Quiet(S, LoginPage) EXCEPT
            !.users = r.users, !.seq.users = r.seq,
            !.ss = [S.ss EXCEPT !.logged_in = TRUE, !.user_id = Some(r.seq),
                                !.username = Some(inp.username)],
            !.msgs = <<<<"success", r.msg>>>>]

\* the "Registrar" tab, its button clicked
registrar(S, inp) ==
    IF inp.username # "" /\ inp.password # ""
    THEN LET r == register_user(S.users, S.seq.users, inp.username, inp.password)
         IN  [Quiet(S, LoginPage) EXCEPT
                 !.users = r.users, !.seq.users = r.seq,
                 !.calls = <<[op |-> "register_user", args |-> inp]>>,
                 !.msgs = IF r.ok THEN <<<<"success", r.msg>>>>
                          ELSE <<<<"error", "Erro ao registrar: ", r.msg>>>>]
    ELSE [Quiet(S, LoginPage) EXCEPT !.msgs = <<<<"warning", "Preencha usuario e senha.">>>>]

\* the "Login" tab, its button clicked; st.stop() ends a successful login before
\* the "Registrar" tab is rendered
entrar(S, inp) ==
    LET r == login_user(S.users, inp.username, inp.password)
    IN  IF r.ok
        THEN [Quiet(S, PageOf({"Entrar"}, {}, {})) EXCEPT
                 !.ss = [S.ss EXCEPT !.logged_in = TRUE, !.user_id = r.user_id,
                                     !.username = Some(inp.username)],
                 !.msgs = <<<<"success", "Bem-vindo(a)">>>>]
        ELSE [Quiet(S, LoginPage) EXCEPT
                 !.msgs = <<<<"error", "Usuario ou senha invalidos.">>>>]

\* the branch "SE NAO ESTIVER LOGADO"
nao_logado(S, w, inp) ==
    IF w = "Entrar" THEN entrar(S, inp)
    ELSE IF w = "Registrar" THEN registrar(S, inp)
    ELSE Quiet(S, LoginPage)

\* form_evento submitted: validation, decomposition of the city, insert_event.
\* The decomposition is outside the try block: its IndexError ends the execution.
cadastrar(S, f) ==
    LET err == erro_cadastro(f)
        x == extrair_cidade_uf(f.cidade)
        a == [user_id |-> Get(S.ss.user_id)] @@ FormArgs(f, x)
        r == insert_event(S.events, S.seq.events, a)
    IN  IF err # "" THEN [Quiet(S, FormPage) EXCEPT !.msgs = <<<<"error", err>>>>]
        ELSE IF x.raised
        THEN [Quiet(S, FormPage) EXCEPT
                 !.raised = TRUE, !.msgs = <<<<"exception", "IndexError">>>>]
        ELSE [Quiet(S, FormPage) EXCEPT
                 !.events = r.events, !.seq.events = r.seq,
                 !.calls = <<[op |-> "insert_event", args |-> a]>>,
                 !.msgs = <<<<"success", "Evento cadastrado com sucesso!">>>>]

\* "Se existe um evento em edicao": the row is looked up among the caller's events;
\* form_edicao_evento is rendered for it and, when submitted, validated, decomposed
\* (outside the try block) and passed to update_event; then "Cancelar Edicao"
edicao(R, df, lista_cidades, w, f) ==
    LET edit_id == Get(R.ss.edit_event_id)
        row_to_edit == SelectSeq(df, LAMBDA r : r.id = edit_id)
    IN  IF row_to_edit = <<>>
        THEN [R EXCEPT !.msgs = Append(@, <<"error", "Evento nao encontrado.">>),
                       !.ss.edit_event_id = None,
                       !.page = FormPage]
        ELSE
        LET opcoes == cidades_opcoes(row_to_edit[1], lista_cidades)
            formPage == PageOf({"Sair", "form_evento", "form_edicao_evento"}, {}, opcoes)
            fullPage == PageOf({"Sair", "form_evento", "form_edicao_evento", "Cancelar"},
                               {}, opcoes)
        IN  IF w = "form_edicao_evento"
            THEN LET err == erro_edicao(f)
                     x == extrair_cidade_uf(f.cidade)
                     a == FormArgs(f, x)
                 IN  IF err # ""
                     THEN [R EXCEPT !.msgs = Append(@, <<"error", err>>),
                                    !.page = fullPage]
                     ELSE IF x.raised
                     THEN [R EXCEPT !.raised = TRUE,
                                    !.msgs = Append(@, <<"exception", "IndexError">>),
                                    !.page = formPage]
                     ELSE [R EXCEPT
                              !.events = update_event(R.events, edit_id, a),
                              !.calls = Append(@, [op |-> "update_event",
                                                   args |-> [event_id |-> edit_id] @@ a]),
                              !.msgs = Append(@, <<"success", "Evento atualizado com sucesso!">>),
                              !.ss.edit_event_id = None,
                              !.page = formPage]
            ELSE IF w = "Cancelar"
            THEN [R EXCEPT !.ss.edit_event_id = None, !.page = fullPage]
            ELSE [R EXCEPT !.page = fullPage]

\* "Nenhum evento em edicao -> Exibir a lista": one edit button per row; the
\* clicked one sets edit_event_id and st.stop() ends the loop at its row
lista(R, df, w, inp) ==
    IF w = "edit" /\ \E i \in 1..Len(df) : df[i].id = inp.id
    THEN LET k == CHOOSE i \in 1..Len(df) : df[i].id = inp.id
         IN  [R EXCEPT !.ss.edit_event_id = Some(inp.id),
                       !.page = PageOf({"Sair", "form_evento"},
                                       {df[i].id : i \in 1..k}, {})]
    ELSE [R EXCEPT !.page = PageOf({"Sair", "form_evento"},
                                   {df[i].id : i \in 1..Len(df)}, {})]

\* "LISTAGEM E EDICAO", entered with what the execution did so far (R)
listagem(R, lista_cidades, w, inp) ==
    LET events_df == fetch_events(R.events, Get(R.ss.user_id))
    IN  IF events_df = <<>>
        THEN [R EXCEPT !.msgs = Append(@, <<"info", "Nenhum evento cadastrado ainda.">>),
                       !.page = FormPage]
        ELSE IF R.ss.edit_event_id # None
        THEN edicao(R, events_df, lista_cidades, w, inp)
        ELSE lista(R, events_df, w, inp)

\* the branch "SE ESTIVER LOGADO"
logado(S, w, inp) ==
    IF w = "Sair"
    THEN [Quiet(S, PageOf({"Sair"}, {}, {})) EXCEPT !.ss = sair(S.ss)]
    ELSE LET c == IF w = "form_evento" THEN cadastrar(S, inp) ELSE Quiet(S, FormPage)
         IN  IF c.raised THEN c
             ELSE listagem(c, carregar_cidades(S.file), w, inp)

\* main()
main(S, w, inp) ==
    IF ~S.ss.logged_in THEN nao_logado(S, w, inp) ELSE logado(S, w, inp)

-----------------------------------------------------------------------------
(* What the user can enter *)

Usernames == {"ana", "bob"}
Passwords == {"p1", "p2"}

\* what is typed into the "Registrar" tab: a name with either password, a second
\* name, and the two ways of leaving a field empty
Registrations ==
    { [username |-> "ana", password |-> "p1"], [username |-> "ana", password |-> "p2"],
      [username |-> "bob", password |-> "p1"],
      [username |-> "", password |-> "p1"], [username |-> "ana", password |-> ""] }

\* the reference dataset of specification Spec: one city with a state code, one without
CIDADES ==
    << [Nome |-> <<"R", "i", "o">>, Uf |-> <<"R", "J">>],
       [Nome |-> <<"I", "t", "a">>, Uf |-> <<>>] >>

\* two fillings of a form that differ in every field but the city
FormA ==
    [nome_evento |-> <<"a">>, local |-> <<"x">>, cidade |-> SELECIONE,
     data_inicio |-> Some(1), data_fim |-> Some(2), qtd_pessoas |-> MIN_QTD,
     categoria |-> "Show", segmento |-> <<"s">>, descricao |-> <<"d">>]

FormB ==
    [nome_evento |-> <<" ", "b", " ">>, local |-> <<"y">>, cidade |-> SELECIONE,
     data_inicio |-> Some(3), data_fim |-> Some(4), qtd_pessoas |-> MIN_QTD + 1,
     categoria |-> "Feira", segmento |-> <<"t">>, descricao |-> <<"e">>]

\* the fillings offered to a form whose city selectbox holds opts: the first with
\* one city, the second with any
Filled(opts) ==
    IF opts = {} THEN {}
    ELSE {[FormA EXCEPT !.cidade = CHOOSE c \in opts : \A d \in opts : Len(d) <= Len(c)]}
         \cup {[FormB EXCEPT !.cidade = c] : c \in opts}

\* one complete filling, and what a user leaves out of it
OneFilled(opts) ==
    IF opts = {} THEN FormA ELSE [FormA EXCEPT !.cidade = CHOOSE c \in opts : TRUE]

IncompleteText(opts) ==
    LET g == OneFilled(opts)
    IN  { [g EXCEPT !.nome_evento = <<>>], [g EXCEPT !.nome_evento = <<" ">>],
          [g EXCEPT !.local = <<>>], [g EXCEPT !.cidade = SELECIONE],
          [g EXCEPT !.categoria = "Selecione..."],
          [g EXCEPT !.segmento = <<" ">>], [g EXCEPT !.descricao = <<>>] }

IncompleteDate(opts) ==
    LET g == OneFilled(opts)
    IN  { [g EXCEPT !.data_inicio = None], [g EXCEPT !.data_fim = None] }

\* form_evento: st.date_input(value=None) may be left empty
CreateForms(opts) == Filled(opts) \cup IncompleteText(opts) \cup IncompleteDate(opts)

\* form_edicao_evento: the date inputs are pre-populated from the row
EditForms(opts) == Filled(opts) \cup IncompleteText(opts)

-----------------------------------------------------------------------------
(* Actions: one execution of main() each *)

St ==
    [users |-> users, events |-> events, seq |-> sqlite_sequence,
     ss |-> session_state, file |-> cidades_json]

Apply(w, inp) ==
    \E R \in {main(St, w, inp)} :
        /\ users' = R.users
        /\ events' = R.events
        /\ sqlite_sequence' = R.seq
        /\ session_state' = R.ss
        /\ page' = R.page
        /\ out' = [widget |-> w, input |-> inp, msgs |-> R.msgs,
                   calls |-> R.calls, raised |-> R.raised]
        /\ UNCHANGED cidades_json

ClickEntrar ==
    /\ "Entrar" \in page.widgets
    /\ \E u \in Usernames, p \in Passwords :
          Apply("Entrar", [username |-> u, password |-> p])

ClickRegistrar ==
    /\ "Registrar" \in page.widgets
    /\ \E r \in Registrations : Apply("Registrar", r)

ClickSair ==
    /\ "Sair" \in page.widgets
    /\ Apply("Sair", <<>>)

SubmitCadastro ==
    /\ "form_evento" \in page.widgets
    /\ Len(events) < MaxEvents
    /\ \E f \in CreateForms(carregar_cidades(cidades_json)) : Apply("form_evento", f)

SubmitSalvar ==
    /\ "form_edicao_evento" \in page.widgets
    /\ \E f \in EditForms(page.opcoes) : Apply("form_edicao_evento", f)

ClickCancelar ==
    /\ "Cancelar" \in page.widgets
    /\ Apply("Cancelar", <<>>)

ClickEditar ==
    \E id \in page.rows : Apply("edit", [id |-> id])

\* the state after a new browser session has run main() once on a fresh database
Init ==
    /\ users = <<>>
    /\ events = <<>>
    /\ sqlite_sequence = [users |-> 0, events |-> 0]
    /\ cidades_json = Some(CIDADES)
    /\ session_state = SessionInit
    /\ page = LoginPage
    /\ out = [widget |-> "", input |-> <<>>, msgs |-> <<>>, calls |-> <<>>,
              raised |-> FALSE]

Next ==
    \/ ClickEntrar
    \/ ClickRegistrar
    \/ ClickSair
    \/ SubmitCadastro
    \/ SubmitSalvar
    \/ ClickCancelar
    \/ ClickEditar

Spec == Init /\ [][Next]_vars

-----------------------------------------------------------------------------
(* Vocabulary of the properties *)

Anonymous == ~session_state.logged_in
Listing == session_state.logged_in /\ session_state.edit_event_id = None
Editing == session_state.logged_in /\ session_state.edit_event_id # None

Ids(evs) == {evs[i].id : i \in 1..Len(evs)}

\* the calls of the store function op made by the execution that led to out
CallsOf(o, op) == {o.calls[i].args : i \in {j \in 1..Len(o.calls) : o.calls[j].op = op}}

\* a form in which a required field is empty or unselected, or attendance is below 1
MissingRequired(f) ==
    \/ Strip(f.nome_evento) = <<>>
    \/ Strip(f.local) = <<>>
    \/ f.cidade = SELECIONE
    \/ f.categoria \notin CATEGORIAS
    \/ Strip(f.segmento) = <<>>
    \/ Strip(f.descricao) = <<>>
    \/ f.qtd_pessoas < 1

\* the row r holds the ten field values a that were passed to the store
RowHolds(r, a) ==
    /\ r.nome_evento = a.nome_evento
    /\ r.local = a.local
    /\ r.cidade = a.cidade
    /\ r.estado = a.estado
    /\ r.data_inicio.iso = a.data_inicio
    /\ r.data_fim.iso = a.data_fim
    /\ r.qtd_pessoas = a.qtd_pessoas
    /\ r.descricao = a.descricao
    /\ r.categoria = a.categoria
    /\ r.segmento = a.segmento

\* the stored account that (u, p) matches exactly, as a set of at most one row
Matching(u, p) == {a \in Range(users) : a.username = u /\ a.password = p}

-----------------------------------------------------------------------------
(* C1: a create or edit-save submission in which a required field is empty or  *)
(* unselected (or attendance is below 1) inserts and modifies no row and       *)
(* leaves the session state as it was.                                         *)
C1_ValidationFailureChangesNothing ==
    [][ (/\ out'.widget \in {"form_evento", "form_edicao_evento"}
         /\ MissingRequired(out'.input))
        => (/\ events' = events
            /\ users' = users
            /\ sqlite_sequence' = sqlite_sequence
            /\ session_state' = session_state) ]_vars

\* an incomplete edit form has been submitted and reported while editing
C1_Witness ==
    /\ Editing
    /\ out.widget = "form_edicao_evento"
    /\ MissingRequired(out.input)
    /\ out.msgs = <<<<"error", "Preencha todos os campos obrigatorios.">>>>

(* C2: after update_event the event with that identifier holds exactly the      *)
(* supplied values in its ten mutable fields and is listed for its owner, and  *)
(* every other event, of any owner, is listed with all its fields as before.   *)
C2_UpdateReflectedOthersUntouched ==
    [][ \A a \in CallsOf(out', "update_event") :
          /\ Len(events') = Len(events)
          /\ \A e \in Range(events) :
                IF e.id = a.event_id
                THEN \E r \in Range(fetch_events(events', e.user_id)) :
                        r.id = e.id /\ RowHolds(r, a)
                ELSE e \in Range(fetch_events(events', e.user_id))
          /\ \A r \in Range(events') : r.id = a.event_id => RowHolds(r, a) ]_vars

\* an event was updated while an event of another account is stored
C2_Witness ==
    /\ CallsOf(out, "update_event") # {}
    /\ \E e \in Range(events) : e.user_id # Get(session_state.user_id)
    /\ \E e \in Range(events) :
          e.user_id = Get(session_state.user_id) /\ e.cidade = <<"I", "t", "a">>

(* C3: a created event is listed for its owner with the values passed to        *)
(* insert_event, and stays listed with all its fields unchanged across every   *)
(* operation that does not update that event.                                  *)
C3_CreatedEventStaysListed ==
    [][ /\ \A a \in CallsOf(out', "insert_event") :
              \E r \in Range(fetch_events(events', a.user_id)) :
                  r.id \notin Ids(events) /\ r.user_id = a.user_id /\ RowHolds(r, a)
        /\ \A e \in Range(events) :
              (\A a \in CallsOf(out', "update_event") : a.event_id # e.id)
                  => e \in Range(fetch_events(events', e.user_id)) ]_vars

\* another account has updated its own event while the first account's event is stored
C3_Witness ==
    /\ Len(events) = 2
    /\ events[1].user_id # events[2].user_id
    /\ \E a \in CallsOf(out, "update_event") : a.event_id = events[2].id

(* C4: register_user with a username that is already stored fails with the      *)
(* duplicate-username error and leaves the account store unchanged, whatever   *)
(* password is supplied.                                                       *)
C4_DuplicateUsernameRejected ==
    [][ \A a \in CallsOf(out', "register_user") :
          (\E u \in Range(users) : u.username = a.username)
              => /\ users' = users
                 /\ sqlite_sequence' = sqlite_sequence
                 /\ out'.msgs = <<<<"error", "Erro ao registrar: ",
                                    "UNIQUE constraint failed: users.username">>>> ]_vars

\* a stored username was registered again with another password and rejected
C4_Witness ==
    /\ out.widget = "Registrar"
    /\ Len(out.msgs) = 1 /\ out.msgs[1][1] = "error"
    /\ \E u \in Range(users) :
          u.username = out.input.username /\ u.password # out.input.password

(* C5: login_user(u, p) returns the identifier of the account named u iff the   *)
(* stored password of that account is p; for an unknown username or another    *)
(* password it returns (False, None).                                          *)
C5_AuthenticateExactMatch ==
    \A u \in Usernames \cup {""}, p \in Passwords \cup {""} :
        LET r == login_user(users, u, p)
        IN  IF Matching(u, p) # {}
            THEN /\ r.ok
                 /\ \A a \in Range(users) : a.username = u => r.user_id = Some(a.id)
            ELSE ~r.ok /\ r.user_id = None

\* a login with a stored username and a wrong password was refused
C5_Witness ==
    /\ out.widget = "Entrar"
    /\ Anonymous
    /\ Len(users) = 2
    /\ \E a \in Range(users) :
          a.username = out.input.username /\ a.password # out.input.password

(* C6: from the Anonymous state a registration attempt and a login with invalid *)
(* credentials leave the session Anonymous with no account id; a login with    *)
(* matching credentials moves to Authenticated-Listing with the account id of  *)
(* the matching account.                                                       *)
C6_OnlyLoginCreatesSession ==
    [][ Anonymous =>
          IF out'.widget = "Entrar"
             /\ Matching(out'.input.username, out'.input.password) # {}
          THEN /\ session_state'.logged_in
               /\ session_state'.edit_event_id = None
               /\ session_state'.username = Some(out'.input.username)
               /\ \A a \in Matching(out'.input.username, out'.input.password) :
                     session_state'.user_id = Some(a.id)
          ELSE /\ ~session_state'.logged_in
               /\ session_state'.user_id = None ]_vars

\* the second registered account has logged in
C6_Witness ==
    /\ out.widget = "Entrar"
    /\ Listing
    /\ session_state.user_id = Some(2)

(* C7: in an authenticated session, logout moves to Anonymous and clears the    *)
(* account id, the username and the event being edited; selecting edit on a    *)
(* listed row moves Listing to Editing(that row); a successful save or a       *)
(* cancel moves Editing to Listing; nothing else changes the session state.    *)
C7_EditStateTransitions ==
    [][ session_state.logged_in =>
          IF out'.widget = "Sair"
          THEN session_state' = SessionInit
          ELSE /\ session_state'.logged_in
               /\ session_state'.user_id = session_state.user_id
               /\ session_state'.username = session_state.username
               /\ session_state'.edit_event_id =
                     IF session_state.edit_event_id = None
                     THEN IF out'.widget = "edit"
                          THEN Some(out'.input.id)
                          ELSE None
                     ELSE IF \/ out'.widget = "Cancelar"
                             \/ /\ out'.widget = "form_edicao_evento"
                                /\ ~MissingRequired(out'.input)
                          THEN None
                          ELSE session_state.edit_event_id
               /\ (out'.widget = "edit" /\ session_state.edit_event_id = None)
                     => out'.input.id
                           \in Ids(fetch_events(events, Get(session_state.user_id))) ]_vars

\* an edit has been cancelled
C7_Witness ==
    /\ out.widget = "Cancelar"
    /\ Listing
    /\ "Cancelar" \in page.widgets

(* C10: event rows are never deleted, their identifiers are pairwise distinct,   *)
(* and no operation changes the identifier or the owner of a stored event.     *)
C10_EventIdentityImmutable ==
    [][ /\ Cardinality(Ids(events')) = Len(events')
        /\ Len(events') >= Len(events)
        /\ \A e \in Range(events) :
              \E r \in Range(events') : r.id = e.id /\ r.user_id = e.user_id ]_vars

\* the first of two stored events has been updated
C10_Witness ==
    /\ Len(events) = 2
    /\ \E a \in CallsOf(out, "update_event") : a.event_id = events[1].id

-----------------------------------------------------------------------------
(* Specification SpecCity: the forms over generated reference datasets.  The    *)
(* file cidades.json is read, never written, by the program; every dataset of  *)
(* one entry whose name has at most MaxNome characters is tried.  A session is *)
(* logged in on a database with one account and no event, as Spec reaches it.  *)

CityChars == {"a", " ", "(", ")"}

\* the names of the generated datasets: not empty, no surrounding whitespace
Nomes ==
    {SubSeq(n, 1, Len(n)) :
        n \in {m \in UNION {[1..k -> CityChars] : k \in 1..MaxNome} : Strip(m) = m}}

\* the state codes of the generated datasets: none, or two letters
Ufs == {<<>>, <<"R", "J">>}

InitCity ==
    /\ users = <<[id |-> 1, username |-> "ana", password |-> "p1"]>>
    /\ events = <<>>
    /\ sqlite_sequence = [users |-> 1, events |-> 0]
    /\ cidades_json \in {Some(<<[Nome |-> n, Uf |-> u]>>) : n \in Nomes, u \in Ufs}
    /\ session_state = [logged_in |-> TRUE, user_id |-> Some(1),
                        username |-> Some("ana"), edit_event_id |-> None]
    /\ page = FormPage
    /\ out = [widget |-> "", input |-> <<>>, msgs |-> <<>>, calls |-> <<>>,
              raised |-> FALSE]

NextCity ==
    \/ SubmitCadastro
    \/ ClickEditar
    \/ SubmitSalvar
    \/ ClickCancelar

SpecCity == InitCity /\ [][NextCity]_vars

\* the decomposition rule as stated: split at the last " (", drop one trailing ")"
\* from the right part; no " (": the whole string and an empty state code
StatedDecomposition(s) ==
    LET pos == Occurrences(s, <<" ", "(">>)
    IN  IF pos = {} THEN [cidade |-> s, uf |-> <<>>]
        ELSE LET k == Max(pos)
                 right == SubSeq(s, k + 2, Len(s))
             IN  [cidade |-> SubSeq(s, 1, k - 1),
                  uf |-> IF right # <<>> /\ right[Len(right)] = ")"
                         THEN SubSeq(right, 1, Len(right) - 1)
                         ELSE right]

(* C8: every display string submitted to create or edit-save is decomposed by   *)
(* splitting at the last " (": the left part is the city name, the right part  *)
(* minus the trailing ")" the state code; a string without " (" is the city    *)
(* name with an empty state code.                                              *)
C8_DecompositionAsStated ==
    /\ ~out.raised
    /\ \A a \in CallsOf(out, "insert_event") :
          /\ a.cidade = StatedDecomposition(out.input.cidade).cidade
          /\ a.estado = StatedDecomposition(out.input.cidade).uf
    /\ \A a \in CallsOf(out, "update_event") :
          /\ a.cidade = StatedDecomposition(out.input.cidade).cidade
          /\ a.estado = StatedDecomposition(out.input.cidade).uf

-----------------------------------------------------------------------------
(* Specification SpecStale: a session that outlives its database.  The session  *)
(* variables live in the server process and the tables in the file eventos.db, *)
(* which init_db() creates again, empty, when main() finds it missing; the     *)
(* session may therefore hold an edit_event_id that the tables it now reads    *)
(* do not contain.                                                             *)

StaleArgs ==
    [user_id |-> 1] @@ FormArgs([FormA EXCEPT !.cidade = <<"R", "i", "o">>],
                                [cidade |-> <<"R", "i", "o">>, uf |-> <<>>])

InitStale ==
    /\ users = << [id |-> 1, username |-> "ana", password |-> "p1"],
                  [id |-> 2, username |-> "bob", password |-> "p1"] >>
    /\ events \in { <<>>,
                    <<EventRow(1, StaleArgs)>>,
                    <<EventRow(1, [StaleArgs EXCEPT !.user_id = 2])>> }
    /\ sqlite_sequence = [users |-> 2, events |-> Len(events)]
    /\ cidades_json = Some(CIDADES)
    /\ \E e \in 1..MaxEvents :
          session_state = [logged_in |-> TRUE, user_id |-> Some(1),
                           username |-> Some("ana"), edit_event_id |-> Some(e)]
    /\ page = PageOf({"Sair", "form_evento", "form_edicao_evento", "Cancelar"}, {},
                     carregar_cidades(cidades_json))
    /\ out = [widget |-> "", input |-> <<>>, msgs |-> <<>>, calls |-> <<>>,
              raised |-> FALSE]

SpecStale == InitStale /\ [][Next]_vars

(* C9: whenever main() renders while an event is being edited that is not among *)
(* the events listed for the authenticated account (the list may be empty), it *)
(* reports "not found", changes no table and leaves the session in             *)
(* Authenticated-Listing.                                                      *)
C9_MissingEventReportedAndCleared ==
    [][ (/\ Editing
         /\ Get(session_state.edit_event_id)
               \notin Ids(fetch_events(events, Get(session_state.user_id)))
         /\ out'.widget # "Sair"
         /\ out'.calls = <<>>)
        => (/\ <<"error", "Evento nao encontrado.">> \in Range(out'.msgs)
            /\ events' = events
            /\ users' = users
            /\ session_state'.logged_in
            /\ session_state'.edit_event_id = None) ]_vars

-----------------------------------------------------------------------------
(* C11: whenever the session is Authenticated-Editing(e), e identifies an event  *)
(* whose owner is the authenticated account, and every update_event call that  *)
(* the controller has dispatched targets an event owned by the caller.         *)
C11_EditTargetsOwnEvent ==
    /\ Editing =>
          \E r \in Range(events) :
              /\ r.id = Get(session_state.edit_event_id)
              /\ r.user_id = Get(session_state.user_id)
    /\ \A a \in CallsOf(out, "update_event") :
          /\ session_state.logged_in
          /\ \E r \in Range(events) :
                r.id = a.event_id /\ r.user_id = Get(session_state.user_id)

\* an account is editing its event while another account's event is stored
C11_Witness ==
    /\ Editing
    /\ out.widget = "edit"
    /\ \E r \in Range(events) : r.user_id # Get(session_state.user_id)

=============================================================================
